---- MODULE Spec2Model ----
(***************************************************************************)
(* Model of app.py: a Flask service that picks the latest health CSV in a  *)
(* Google Drive folder, normalises it to the last seven dated records and  *)
(* renders a dashboard.                                                    *)
(*                                                                         *)
(* Python strings are TLA+ strings (Len, SubSeq and \o act on them), so    *)
(* the regex search, the ISO parser, str.lower, the substring test and     *)
(* str.replace are computed character by character.                        *)
(* Python exceptions are values: a function that can raise returns a       *)
(* record with an "exc" field, "" when it returned normally.               *)
(***************************************************************************)
EXTENDS Integers, Sequences, FiniteSets, TLC

VARIABLES
    files,      \* the Drive listing handed to the selector (resp["files"])
    selPc,      \* "call" before download_latest_csv_from_drive_with_meta ran, "done" after
    selOut,     \* its outcome: [exc, ranked, latest, calls]
    columns,    \* list(df.columns) handed to _colmap
    colPc,      \* "call" before _colmap ran, "done" after
    cmap,       \* the mapping _colmap returned
    table,      \* the CSV handed to normalize_and_last_7: [columns, rows of cell texts]
    normPc,     \* "call" before normalize_and_last_7 ran, "done" after
    normOut,    \* its outcome: [exc, rows]
    cfg,        \* the process configuration: [API_KEY, FOLDER_ID]
    phase,      \* "idle", or "responded" once a handler returned
    req,        \* the request being served: [route, key, tz, force_today]
    resp,       \* the response: [status, kind, body]
    obs         \* what the handler did: [stage, exc, calls, rows, text, header_line, old, new]

selVars == <<files, selPc, selOut>>
colVars == <<columns, colPc, cmap>>
normVars == <<table, normPc, normOut>>
httpVars == <<cfg, phase, req, resp, obs>>
vars == <<files, selPc, selOut, columns, colPc, cmap, table, normPc, normOut,
          cfg, phase, req, resp, obs>>

\* Python's None and a present value
None == <<>>
Some(x) == <<x>>

(***************************************************************************)
(* Strings                                                                 *)
(***************************************************************************)
Ch(s, i) == SubSeq(s, i, i)

IsDigit(c) == c \in {"0", "1", "2", "3", "4", "5", "6", "7", "8", "9"}

DigitVal(c) ==
    CASE c = "0" -> 0 [] c = "1" -> 1 [] c = "2" -> 2 [] c = "3" -> 3 [] c = "4" -> 4
      [] c = "5" -> 5 [] c = "6" -> 6 [] c = "7" -> 7 [] c = "8" -> 8 [] c = "9" -> 9

\* s[i .. i+n-1] are all digits (and inside the string)
DigitsAt(s, i, n) == i >= 1 /\ i + n - 1 <= Len(s) /\ \A k \in i..(i + n - 1) : IsDigit(Ch(s, k))

RECURSIVE ToInt(_, _, _)
\* int(s[i .. i+n-1])
ToInt(s, i, n) == IF n = 0 THEN 0 ELSE ToInt(s, i, n - 1) * 10 + DigitVal(Ch(s, i + n - 1))

\* s[i .. i+Len(t)-1] = t
StartsAt(s, t, i) == i >= 1 /\ i + Len(t) - 1 <= Len(s) /\ SubSeq(s, i, i + Len(t) - 1) = t

\* Python's  t in s
Contains(s, t) == \E i \in 1..(Len(s) - Len(t) + 1) : SubSeq(s, i, i + Len(t) - 1) = t

\* the start of the leftmost occurrence of t in s at or after i, 0 for none
FindFrom(s, t, i) ==
    LET hits == {k \in i..(Len(s) - Len(t) + 1) : SubSeq(s, k, k + Len(t) - 1) = t}
    IN  IF hits = {} THEN 0 ELSE CHOOSE k \in hits : \A h \in hits : k <= h

RECURSIVE ReplaceFrom(_, _, _, _)
\* str.replace(old, new) on s[i ..]: every non-overlapping occurrence, left to right
ReplaceFrom(s, old, new, i) ==
    LET k == FindFrom(s, old, i)
    IN  IF k = 0 THEN SubSeq(s, i, Len(s))
        ELSE SubSeq(s, i, k - 1) \o new \o ReplaceFrom(s, old, new, k + Len(old))

\* Python's  s.replace(old, new)  (old is never empty here)
StrReplace(s, old, new) == ReplaceFrom(s, old, new, 1)

(***************************************************************************)
(* Calendar                                                                *)
(***************************************************************************)
IsLeap(y) == (y % 4 = 0 /\ y % 100 # 0) \/ y % 400 = 0

DaysInMonth(y, m) ==
    IF m = 2 THEN (IF IsLeap(y) THEN 29 ELSE 28)
    ELSE IF m \in {4, 6, 9, 11} THEN 30 ELSE 31

\* dt.date(y, m, d) does not raise ValueError
ValidDate(y, m, d) == y >= 1 /\ y <= 9999 /\ m >= 1 /\ m <= 12 /\ d >= 1 /\ d <= DaysInMonth(y, m)

\* a dt.date as the number yyyymmdd, which orders as dates do
DateNum(y, m, d) == y * 10000 + m * 100 + d

\* dt.date.min = 0001-01-01
DateMin == DateNum(1, 1, 1)

(***************************************************************************)
(* Column mapping                                                          *)
(***************************************************************************)
UpperLetters == "ABCDEFGHIJKLMNOPQRSTUVWXYZ"
LowerLetters == "abcdefghijklmnopqrstuvwxyz"

LowerCh(c) ==
    IF \E k \in 1..26 : Ch(UpperLetters, k) = c
    THEN Ch(LowerLetters, CHOOSE k \in 1..26 : Ch(UpperLetters, k) = c)
    ELSE c

RECURSIVE LowerFrom(_, _)
LowerFrom(s, i) == IF i > Len(s) THEN "" ELSE LowerCh(Ch(s, i)) \o LowerFrom(s, i + 1)

\* Python's  s.lower()  (ASCII letters; the other characters used here have no case)
StrLower(s) == LowerFrom(s, 1)

\* A dict is a sequence of [k, v] items in insertion order.  d[k] = v keeps
\* the place of a key already present and replaces its value.
DictHas(d, k) == \E i \in 1..Len(d) : d[i].k = k

DictGet(d, k) == d[CHOOSE i \in 1..Len(d) : d[i].k = k].v

DictSet(d, k, v) ==
    IF DictHas(d, k)
    THEN [i \in 1..Len(d) |-> IF d[i].k = k THEN [k |-> k, v |-> v] ELSE d[i]]
    ELSE Append(d, [k |-> k, v |-> v])

RECURSIVE LowerMapUpTo(_, _)
\* {c.lower(): c for c in cols[1..n]}
LowerMapUpTo(cols, n) ==
    IF n = 0 THEN <<>> ELSE DictSet(LowerMapUpTo(cols, n - 1), StrLower(cols[n]), cols[n])

\* the first pair (alias index, dict index), alias-major, whose alias occurs in
\* the lower-cased column name
SubstringHits(lower_map, cands) ==
    {<<a, i>> \in (1..Len(cands)) \X (1..Len(lower_map)) : Contains(lower_map[i].k, cands[a])}

FirstHit(hits) ==
    CHOOSE h \in hits : \A g \in hits : h[1] < g[1] \/ (h[1] = g[1] /\ h[2] <= g[2])

\* a plausible slip: the flexible substring pass runs before the exact pass
pickSubstringFirst(lower_map, cands) ==
    LET hits == SubstringHits(lower_map, cands)
    IN  IF hits # {} THEN lower_map[FirstHit(hits)[2]].v ELSE ""

\* pick(*cands) inside _colmap
pick(lower_map, cands) ==
    LET exact == {a \in 1..Len(cands) : DictHas(lower_map, cands[a])}
        hits == SubstringHits(lower_map, cands)
    IN  IF exact # {}
        THEN DictGet(lower_map, cands[CHOOSE a \in exact : \A b \in exact : a <= b])
        ELSE IF hits # {} THEN lower_map[FirstHit(hits)[2]].v
        ELSE ""

\* the alias lists _colmap passes to pick
Aliases ==
    [date               |-> <<"date", "day", "datetime", "start date", "start_date">>,
     steps              |-> <<"steps", "step", "step_count">>,
     sleep_hours        |-> <<"sleep_hours", "sleep hour", "sleep_duration", "sleep_duration_hours">>,
     active_energy_kcal |-> <<"active_energy_kcal", "move_kcal", "active energy", "active_kcal">>,
     resting_hr_bpm     |-> <<"resting_hr_bpm", "resting heart", "resting_heart_rate", "rest hr", "restinghr">>,
     weight_kg          |-> <<"weight_kg", "body mass", "weight">>]

Metrics == DOMAIN Aliases

_colmap(cols) ==
    LET lower_map == LowerMapUpTo(cols, Len(cols))
    IN  [m \in Metrics |-> pick(lower_map, Aliases[m])]

NoMap == [m \in Metrics |-> ""]

ColOff == columns = <<>> /\ colPc = "off" /\ cmap = NoMap


(***************************************************************************)
(* Normaliser                                                              *)
(*                                                                         *)
(* A CSV is [columns, rows]: the header row and, per data row, the text of *)
(* each cell.  pd.read_csv and pd.to_datetime are modelled on the cells    *)
(* used here: a date cell is "YYYY-MM-DD" or does not parse, a numeric     *)
(* cell is a string of digits, blank, or not a number.                     *)
(***************************************************************************)
Pad2(n) == IF n < 10 THEN "0" \o ToString(n) ELSE ToString(n)

Pad4(n) == IF n < 10 THEN "000" \o ToString(n)
           ELSE IF n < 100 THEN "00" \o ToString(n)
           ELSE IF n < 1000 THEN "0" \o ToString(n)
           ELSE ToString(n)

\* date.isoformat()
IsoFormat(y, m, d) == Pad4(y) \o "-" \o Pad2(m) \o "-" \o Pad2(d)

\* pd.to_datetime(cell, errors="coerce").dt.date then d.isoformat(): None for NaT
DateCell(cell) ==
    IF /\ Len(cell) = 10
       /\ DigitsAt(cell, 1, 4) /\ Ch(cell, 5) = "-" /\ DigitsAt(cell, 6, 2)
       /\ Ch(cell, 8) = "-" /\ DigitsAt(cell, 9, 2)
       /\ ValidDate(ToInt(cell, 1, 4), ToInt(cell, 6, 2), ToInt(cell, 9, 2))
    THEN Some(IsoFormat(ToInt(cell, 1, 4), ToInt(cell, 6, 2), ToInt(cell, 9, 2)))
    ELSE None

\* _to_float on a cell as read_csv delivers it: NaN for a blank cell, a number
\* for digits, the text itself (on which float() raises) otherwise
_to_float(cell) ==
    IF Len(cell) >= 1 /\ DigitsAt(cell, 1, Len(cell)) THEN Some(ToInt(cell, 1, Len(cell))) ELSE None

\* code point order of the characters of an ISO date
Ord(c) == IF c = "-" THEN 45 ELSE 48 + DigitVal(c)

RECURSIVE StrLtFrom(_, _, _)
StrLtFrom(a, b, i) ==
    IF i > Len(b) THEN FALSE
    ELSE IF i > Len(a) THEN TRUE
    ELSE IF Ch(a, i) = Ch(b, i) THEN StrLtFrom(a, b, i + 1)
    ELSE Ord(Ch(a, i)) < Ord(Ch(b, i))

\* Python's  a < b  on two ISO date strings
StrLt(a, b) == StrLtFrom(a, b, 1)

\* r put after the last record of the sorted list not greater than it
InsertByDate(sorted, r) ==
    LET after == {k \in 1..Len(sorted) : ~StrLt(r.date, sorted[k].date)}
        at == IF after = {} THEN 0 ELSE CHOOSE k \in after : \A j \in after : j <= k
    IN  SubSeq(sorted, 1, at) \o <<r>> \o SubSeq(sorted, at + 1, Len(sorted))

RECURSIVE SortByDateUpTo(_, _)
\* The stable ascending sort of recs[1..n] on r["date"].  No comparison
\* raises, so every stable sort, list.sort and sorted() included, gives this
\* list.
SortByDateUpTo(recs, n) ==
    IF n = 0 THEN <<>> ELSE InsertByDate(SortByDateUpTo(recs, n - 1), recs[n])

SortByDate(recs) == SortByDateUpTo(recs, Len(recs))

\* the slice [-7:]
Last7 == 7

\* a plausible slip: out[:7], the first seven
FirstSeven(out) == SubSeq(out, 1, IF Len(out) < Last7 THEN Len(out) ELSE Last7)

\* out[-7:]
LastSeven(out) == SubSeq(out, IF Len(out) > Last7 THEN Len(out) - Last7 + 1 ELSE 1, Len(out))

ColIndex(cols, name) == CHOOSE i \in 1..Len(cols) : cols[i] = name

\* get_col(key) and row[col.name]: the cell of a mapped column, None when the
\* key is unmapped
MetricOf(csv, cm, row, key) ==
    IF cm[key] # "" THEN _to_float(row[ColIndex(csv.columns, cm[key])]) ELSE None

RECURSIVE RecordsUpTo(_, _, _)
\* the loop over df.iterrows(): out after the first n rows
RecordsUpTo(csv, cm, n) ==
    IF n = 0 THEN <<>>
    ELSE LET row == csv.rows[n]
             d == DateCell(row[ColIndex(csv.columns, cm.date)])
             before == RecordsUpTo(csv, cm, n - 1)
         IN  IF d = None THEN before
             ELSE Append(before,
                         [date               |-> d[1],
                          steps              |-> MetricOf(csv, cm, row, "steps"),
                          sleep_hours        |-> MetricOf(csv, cm, row, "sleep_hours"),
                          active_energy_kcal |-> MetricOf(csv, cm, row, "active_energy_kcal"),
                          resting_hr_bpm     |-> MetricOf(csv, cm, row, "resting_hr_bpm"),
                          weight_kg          |-> MetricOf(csv, cm, row, "weight_kg")])

\* normalize_and_last_7(csv_bytes); returns [exc, rows].  read_csv raises
\* EmptyDataError on a file without a header row.
normalize_and_last_7(csv) ==
    IF csv.columns = <<>> THEN [exc |-> "EmptyDataError", rows |-> <<>>]
    ELSE LET cm == _colmap(csv.columns)
         IN  IF cm.date = "" THEN [exc |-> "ValueError", rows |-> <<>>]
             ELSE [exc |-> "", rows |-> LastSeven(SortByDate(RecordsUpTo(csv, cm, Len(csv.rows))))]

NoCsv == [columns |-> <<>>, rows |-> <<>>]
NoRows == [exc |-> "", rows |-> <<>>]

NormOff == table = NoCsv /\ normPc = "off" /\ normOut = NoRows


(***************************************************************************)
(* Dashboard renderer                                                      *)
(*                                                                         *)
(* The labels of the report are Japanese in the source and English here.   *)
(* What matters is kept: the header line and every per-day line carry the  *)
(* same label before their date ("date: "), and no other line does.        *)
(***************************************************************************)
DateLabel == "date: "

LowStepsFlag == "low steps today: in progress or inactive"

HighRestingHrFlag == "resting heart rate rather high: check sleep, stress, water"

ShortSleepFlag(n) == "sleep under 6h on " \o ToString(n) \o " day(s): rest advised"

\* the low-activity threshold
LowSteps == 5000

\* round(p / q) for p >= 0, q > 0: Python rounds halves to the even integer
RoundHalfEven(p, q) ==
    LET n == p \div q
        r == p % q
    IN  IF 2 * r < q THEN n
        ELSE IF 2 * r > q THEN n + 1
        ELSE IF n % 2 = 0 THEN n ELSE n + 1

\* _round0(x): an integer, or None
_round0(x) == IF x = None THEN None ELSE Some(x[1])

\* _round1(x): a float with one decimal, held in tenths, or None
_round1(x) == IF x = None THEN None ELSE Some(10 * x[1])

\* str() of an int or None
StrInt(x) == IF x = None THEN "None" ELSE ToString(x[1])

\* str() of a float held in tenths, or None
StrTenths(x) == IF x = None THEN "None" ELSE ToString(x[1] \div 10) \o "." \o ToString(x[1] % 10)

RECURSIVE safe_vals_from(_, _, _)
\* safe_vals(key): the values of key that are not None, rows[i..]
safe_vals_from(rows, key, i) ==
    IF i > Len(rows) THEN <<>>
    ELSE IF rows[i][key] = None THEN safe_vals_from(rows, key, i + 1)
    ELSE <<rows[i][key][1]>> \o safe_vals_from(rows, key, i + 1)

safe_vals(rows, key) == safe_vals_from(rows, key, 1)

RECURSIVE SumSeq(_)
SumSeq(v) == IF v = <<>> THEN 0 ELSE Head(v) + SumSeq(Tail(v))

\* _round0(st.mean(vals)) if vals else None
AvgRound0(vals) == IF vals = <<>> THEN None ELSE Some(RoundHalfEven(SumSeq(vals), Len(vals)))

\* _round1(st.mean(vals)) if vals else None, in tenths.  (A mean that ends in
\* 5 at the second decimal rounds as its binary float does; the tables used
\* here map no column that is averaged to one decimal.)
AvgRound1(vals) == IF vals = <<>> THEN None ELSE Some(RoundHalfEven(10 * SumSeq(vals), Len(vals)))

\* fmt_day(d)
fmt_day(d) ==
    "    - {" \o DateLabel \o d.date \o ", steps: " \o StrInt(_round0(d.steps))
        \o ", sleep_h: " \o StrTenths(_round1(d.sleep_hours))
        \o ", active_kcal: " \o StrInt(_round0(d.active_energy_kcal))
        \o ", weight_kg: " \o StrTenths(_round1(d.weight_kg)) \o "}"

RECURSIVE JoinFrom(_, _)
\* "\n".join(y[i..])
JoinFrom(y, i) ==
    IF i > Len(y) THEN ""
    ELSE IF i = Len(y) THEN y[i]
    ELSE y[i] \o "\n" \o JoinFrom(y, i + 1)

\* the flags, in the order the code appends them (latest.steps is not None)
FlagsOf(rows, latest) ==
    LET short == Len(safe_vals_from([i \in 1..Len(rows) |->
                         [v |-> IF rows[i].sleep_hours # None /\ rows[i].sleep_hours[1] < 6
                                THEN Some(1) ELSE None]], "v", 1))
    IN  (IF latest.steps[1] < LowSteps THEN <<LowStepsFlag>> ELSE <<>>)
        \o (IF short > 0 THEN <<ShortSleepFlag(short)>> ELSE <<>>)
        \o (IF latest.resting_hr_bpm # None /\ latest.resting_hr_bpm[1] # 0
               /\ latest.resting_hr_bpm[1] >= 75
            THEN <<HighRestingHrFlag>> ELSE <<>>)

\* the lines y of the report for the sorted, non-empty rows
ReportLines(rows, latest, flags) ==
    << DateLabel \o latest.date,
       "latest:",
       "  weight_kg: " \o StrTenths(_round1(latest.weight_kg)),
       "  sleep_h: " \o StrTenths(_round1(latest.sleep_hours)),
       "  steps: " \o StrInt(_round0(latest.steps)),
       "  active_energy_kcal: " \o StrInt(_round0(latest.active_energy_kcal)),
       "  resting_hr_bpm: " \o StrTenths(_round1(latest.resting_hr_bpm)),
       "weekly_avg:",
       "  steps: " \o StrInt(AvgRound0(safe_vals(rows, "steps"))),
       "  sleep_h: " \o StrTenths(AvgRound1(safe_vals(rows, "sleep_hours"))),
       "  active_kcal: " \o StrInt(AvgRound0(safe_vals(rows, "active_energy_kcal"))),
       "  weight_kg: " \o StrTenths(AvgRound1(safe_vals(rows, "weight_kg"))),
       "weekly_summary:",
       "  period: " \o rows[1].date \o "~" \o rows[Len(rows)].date,
       "  days:" >>
    \o [i \in 1..Len(rows) |-> fmt_day(rows[i])]
    \o (IF flags = <<>> THEN <<>>
        ELSE <<"notes:">> \o [i \in 1..Len(flags) |-> "  - " \o flags[i]])

\* build_yaml_dashboard once rows is sorted
RenderSorted(rows) ==
    IF rows = <<>> THEN [exc |-> "IndexError", text |-> ""]                  \* rows[-1]
    ELSE IF rows[Len(rows)].steps = None THEN [exc |-> "TypeError", text |-> ""]  \* None < 5000
    ELSE [exc |-> "",
          text |-> JoinFrom(ReportLines(rows, rows[Len(rows)], FlagsOf(rows, rows[Len(rows)])), 1)]

\* build_yaml_dashboard(rows); returns [exc, text].  Every record holds the
\* key "steps", so latest.get("steps", 0) is its value, None included.
build_yaml_dashboard(rows) == RenderSorted(SortByDate(rows))


(***************************************************************************)
(* Latest-file selector                                                    *)
(***************************************************************************)
DateSeps == {"-", "_"}

\* position after an optional [-_] at j
SkipSep(s, j) == IF j <= Len(s) /\ Ch(s, j) \in DateSeps THEN j + 1 ELSE j

\* _DATE_IN_NAME matches with its first character at i.  The optional
\* separators need no backtracking: where a separator stands no digit does.
DateMatchesAt(s, i) ==
    LET j == SkipSep(s, i + 4)
        k == SkipSep(s, j + 2)
    IN  StartsAt(s, "20", i) /\ DigitsAt(s, i + 2, 2) /\ DigitsAt(s, j, 2) /\ DigitsAt(s, k, 2)

\* m.groups() of the match at i, as integers
DateGroupsAt(s, i) ==
    LET j == SkipSep(s, i + 4)
        k == SkipSep(s, j + 2)
    IN  [y |-> ToInt(s, i, 4), mth |-> ToInt(s, j, 2), d |-> ToInt(s, k, 2)]

RECURSIVE FirstDateMatch(_, _)
\* _DATE_IN_NAME.search: the start of the leftmost match at or after i, 0 for none
FirstDateMatch(s, i) ==
    IF i > Len(s) THEN 0
    ELSE IF DateMatchesAt(s, i) THEN i
    ELSE FirstDateMatch(s, i + 1)

\* the date of the match at position first (0: no match)
DateOfMatch(name, first) ==
    IF first = 0 THEN DateMin
    ELSE LET g == DateGroupsAt(name, first)
         IN  IF ValidDate(g.y, g.mth, g.d) THEN DateNum(g.y, g.mth, g.d) ELSE DateMin

_parse_date_from_name(name) == DateOfMatch(name, FirstDateMatch(name, 1))

\* dt.datetime.min: naive, 0001-01-01T00:00:00
DatetimeMin == [aware |-> FALSE, d |-> DateMin, hms |-> 0, ms |-> 0]

\* The tail of an ISO string after the seconds: "", ".fff", each with or
\* without the offset "+00:00".  Other offsets and fractions are outside
\* what Drive sends and count as unparseable here.
IsoTailOk(t) ==
    \/ t \in {"", "+00:00"}
    \/ /\ Len(t) >= 4 /\ Ch(t, 1) = "." /\ DigitsAt(t, 2, 3)
       /\ SubSeq(t, 5, Len(t)) \in {"", "+00:00"}

\* dt.datetime.fromisoformat(t) succeeds
IsoOk(t) ==
    /\ Len(t) >= 19
    /\ DigitsAt(t, 1, 4) /\ Ch(t, 5) = "-" /\ DigitsAt(t, 6, 2) /\ Ch(t, 8) = "-" /\ DigitsAt(t, 9, 2)
    /\ Ch(t, 11) = "T"
    /\ DigitsAt(t, 12, 2) /\ Ch(t, 14) = ":" /\ DigitsAt(t, 15, 2) /\ Ch(t, 17) = ":" /\ DigitsAt(t, 18, 2)
    /\ ValidDate(ToInt(t, 1, 4), ToInt(t, 6, 2), ToInt(t, 9, 2))
    /\ ToInt(t, 12, 2) < 24 /\ ToInt(t, 15, 2) < 60 /\ ToInt(t, 18, 2) < 60
    /\ IsoTailOk(SubSeq(t, 20, Len(t)))

\* an aware datetime carries an offset (here always +00:00), a naive one none
IsoValue(t) ==
    LET tail == SubSeq(t, 20, Len(t))
    IN  [aware |-> Contains(tail, "+00:00"),
         d     |-> DateNum(ToInt(t, 1, 4), ToInt(t, 6, 2), ToInt(t, 9, 2)),
         hms   |-> ToInt(t, 12, 2) * 10000 + ToInt(t, 15, 2) * 100 + ToInt(t, 18, 2),
         ms    |-> IF Len(tail) >= 4 /\ Ch(tail, 1) = "." THEN ToInt(tail, 2, 3) ELSE 0]

_parse_iso_dt(s) ==
    LET t == StrReplace(s, "Z", "+00:00")
    IN  IF IsoOk(t) THEN IsoValue(t) ELSE DatetimeMin

sort_key(f) == [dname |-> _parse_date_from_name(f.name), mtime |-> _parse_iso_dt(f.modifiedTime)]

\* datetime < datetime of equal awareness (all offsets are +00:00)
DatetimeLt(a, b) ==
    \/ a.d < b.d
    \/ a.d = b.d /\ a.hms < b.hms
    \/ a.d = b.d /\ a.hms = b.hms /\ a.ms < b.ms

\* Comparing two key tuples raises TypeError exactly when the dates are equal
\* and the datetimes are one naive, one aware: tuple comparison looks for the
\* first differing item with ==, which is False (no error) between a naive
\* and an aware datetime, and then applies < to that item.
KeyRaises(a, b) == a.dname = b.dname /\ a.mtime.aware # b.mtime.aware

\* a plausible slip: the tie-break on modifiedTime left out
KeyLtDateOnly(a, b) == a.dname < b.dname

\* key tuple a < key tuple b, when it does not raise
KeyLt(a, b) == a.dname < b.dname \/ (a.dname = b.dname /\ DatetimeLt(a.mtime, b.mtime))

(***************************************************************************)
(* list.sort(key=..., reverse=True) as CPython runs it on a short list     *)
(* (fewer than 64 items: one run found by count_run, extended by binary    *)
(* insertion).  The list holds [key, item] pairs; the keys are computed    *)
(* once, before any comparison.  Which pairs of keys are compared decides  *)
(* whether a TypeError is raised, so the comparisons are those of the      *)
(* algorithm, in its order.                                                *)
(***************************************************************************)
Reverse(a) == [i \in 1..Len(a) |-> a[Len(a) + 1 - i]]

RECURSIVE CountRunFrom(_, _, _)
\* count_run after its first comparison: a[1..n] is a run, descending or not.
\* Returns [exc, n, desc].
CountRunFrom(a, n, desc) ==
    IF n = Len(a) THEN [exc |-> "", n |-> n, desc |-> desc]
    ELSE IF KeyRaises(a[n + 1].key, a[n].key) THEN [exc |-> "TypeError", n |-> n, desc |-> desc]
    ELSE IF KeyLt(a[n + 1].key, a[n].key) = desc THEN CountRunFrom(a, n + 1, desc)
    ELSE [exc |-> "", n |-> n, desc |-> desc]

\* count_run(lo, hi, &descending), Len(a) >= 1
CountRun(a) ==
    IF Len(a) = 1 THEN [exc |-> "", n |-> 1, desc |-> FALSE]
    ELSE IF KeyRaises(a[2].key, a[1].key) THEN [exc |-> "TypeError", n |-> 1, desc |-> FALSE]
    ELSE CountRunFrom(a, 2, KeyLt(a[2].key, a[1].key))

RECURSIVE BinaryLoc(_, _, _, _)
\* binarysort's inner loop: where pivot goes in the sorted a[l .. r-1], l < r.
\* 0 when a comparison raises.
BinaryLoc(a, pivot, l, r) ==
    LET p == l + ((r - l) \div 2)
    IN  IF KeyRaises(pivot.key, a[p].key) THEN 0
        ELSE LET l2 == IF KeyLt(pivot.key, a[p].key) THEN l ELSE p + 1
                 r2 == IF KeyLt(pivot.key, a[p].key) THEN p ELSE r
             IN  IF l2 < r2 THEN BinaryLoc(a, pivot, l2, r2) ELSE l2

RECURSIVE BinarySort(_, _)
\* binarysort(lo, hi, start): a[1 .. start-1] is sorted, insert the rest.
\* Returns [exc, list].
BinarySort(a, start) ==
    IF start > Len(a) THEN [exc |-> "", list |-> a]
    ELSE LET loc == BinaryLoc(a, a[start], 1, start)
         IN  IF loc = 0 THEN [exc |-> "TypeError", list |-> a]
             ELSE BinarySort(SubSeq(a, 1, loc - 1) \o <<a[start]>> \o SubSeq(a, loc, start - 1)
                                 \o SubSeq(a, start + 1, Len(a)),
                             start + 1)

\* the ascending sort of a list of [key, item] pairs
SortAscending(a) ==
    IF Len(a) < 2 THEN [exc |-> "", list |-> a]
    ELSE LET run == CountRun(a)
             b == IF run.desc THEN Reverse(SubSeq(a, 1, run.n)) \o SubSeq(a, run.n + 1, Len(a))
                  ELSE a
         IN  IF run.exc # "" THEN [exc |-> run.exc, list |-> a]
             ELSE BinarySort(b, run.n + 1)

\* reverse=True: the list is reversed, sorted ascending and reversed again
SortReverse(a) ==
    LET r == SortAscending(Reverse(a))
    IN  [exc |-> r.exc, list |-> Reverse(r.list)]

\* files.sort(key=sort_key, reverse=True); returns [exc, list of files]
SortFiles(fs) ==
    LET keyed == [i \in 1..Len(fs) |-> [key |-> sort_key(fs[i]), item |-> fs[i]]]
        r == SortReverse(keyed)
    IN  [exc |-> r.exc, list |-> [i \in 1..Len(r.list) |-> r.list[i].item]]

NoFile == [id |-> 0, name |-> "", modifiedTime |-> ""]

NoSel == [exc |-> "", ranked |-> <<>>, latest |-> NoFile, calls |-> <<>>]

\* the rest of download_latest_csv_from_drive_with_meta once files.sort has
\* returned or raised (sorted = [exc, list])
DownloadSorted(sorted, getFails) ==
    IF sorted.exc # "" THEN [NoSel EXCEPT !.exc = sorted.exc, !.calls = <<"list">>]
    ELSE [exc    |-> IF getFails THEN "HttpError" ELSE "",
          ranked |-> sorted.list,
          latest |-> sorted.list[1],
          calls  |-> <<"list", "get_media">>]

\* download_latest_csv_from_drive_with_meta, with what the Drive client does as
\* inputs: the listing it returns and whether each of its two calls fails.
\* Returns [exc, ranked, latest, calls]: the exception raised ("" for none),
\* the listing after the sort, files[0], and the Drive calls made.
download_latest_csv_from_drive_with_meta(folder_id, listing, listFails, getFails) ==
    IF folder_id = "" THEN [NoSel EXCEPT !.exc = "ValueError"]
    ELSE IF listFails THEN [NoSel EXCEPT !.exc = "HttpError", !.calls = <<"list">>]
    ELSE IF listing = <<>> THEN [NoSel EXCEPT !.exc = "FileNotFoundError", !.calls = <<"list">>]
    ELSE DownloadSorted(SortFiles(listing), getFails)

(***************************************************************************)
(* Time utilities and the route handlers                                   *)
(***************************************************************************)
\* the zone names pytz.timezone accepts, of which two are modelled, with
\* their UTC offsets in hours
KnownZones == {"Asia/Tokyo", "UTC"}

ZoneOffset(tz_name) == IF tz_name = "UTC" THEN 0 ELSE 9

\* the day after the date yyyymmdd
NextDay(n) ==
    LET y == n \div 10000
        m == (n \div 100) % 100
        d == n % 100
    IN  IF d < DaysInMonth(y, m) THEN DateNum(y, m, d + 1)
        ELSE IF m < 12 THEN DateNum(y, m + 1, 1)
        ELSE DateNum(y + 1, 1, 1)

\* strftime("%Y-%m-%d %H:%M:%S") of the datetime v moved east by h hours
LocalText(v, h) ==
    LET hour == v.hms \div 10000 + h
        day == IF hour >= 24 THEN NextDay(v.d) ELSE v.d
    IN  IsoFormat(day \div 10000, (day \div 100) % 100, day % 100) \o " "
            \o Pad2(hour % 24) \o ":" \o Pad2((v.hms \div 100) % 100) \o ":" \o Pad2(v.hms % 100)

\* to_local_from_iso_utc(dt_str, tz_name); returns [exc, text].  An unknown
\* zone falls back to Asia/Tokyo; a string fromisoformat rejects raises.  (A
\* string without offset would be read in the server's zone, taken as UTC.)
to_local_from_iso_utc(dt_str, tz_name) ==
    LET t == StrReplace(dt_str, "Z", "+00:00")
        tz == IF tz_name \in KnownZones THEN tz_name ELSE "Asia/Tokyo"
    IN  IF dt_str = "" THEN [exc |-> "", text |-> ""]
        ELSE IF ~IsoOk(t) THEN [exc |-> "ValueError", text |-> ""]
        ELSE [exc |-> "", text |-> LocalText(IsoValue(t), ZoneOffset(tz))]

\* a plausible slip: the "API_KEY is not None" test left out
_auth_ok_no_none_check(API_KEY, key) == key = API_KEY

\* _auth_ok(req): API_KEY and the X-API-Key header are None or Some(string)
_auth_ok(API_KEY, key) == API_KEY # None /\ key = API_KEY

\* request.args.get(name, default)
ArgOr(arg, default) == IF arg = None THEN default ELSE arg[1]

\* request.args.get("force_today", "0").lower() in ("1", "true", "yes")
ForceToday(arg) == StrLower(ArgOr(arg, "0")) \in {"1", "true", "yes"}

\* every exception raised here derives from Exception
ExceptionClasses ==
    {"ValueError", "TypeError", "IndexError", "FileNotFoundError", "HttpError", "EmptyDataError"}

\* a plausible slip: "except ValueError" where "except Exception" is meant
IsInstanceNarrow(exc, cls) ==
    \/ exc = cls
    \/ cls = "Exception" /\ exc \in {"ValueError", "EmptyDataError"}

\* isinstance(e, cls) for the classes the except clauses name
IsInstance(exc, cls) == exc = cls \/ (cls = "Exception" /\ exc \in ExceptionClasses)

Unauthorized == [status |-> 401, kind |-> "json_error", body |-> "Unauthorized"]

\* The except clauses of a handler, tried in order: FileNotFoundError gives
\* str(e), Exception gives the prefixed str(e); an exception no clause
\* catches leaves the handler.
Except(exc, prefix) ==
    IF IsInstance(exc, "FileNotFoundError")
    THEN [status |-> 500, kind |-> "json_error", body |-> exc]
    ELSE IF IsInstance(exc, "Exception")
    THEN [status |-> 500, kind |-> "json_error", body |-> prefix \o exc]
    ELSE [status |-> 500, kind |-> "escaped", body |-> exc]

NoObs == [stage |-> "auth", exc |-> "", calls |-> <<>>, rows |-> <<>>, text |-> "",
          header_line |-> "", old |-> "", new |-> ""]

\* A handler is given the configuration, the request r = [route, key, tz,
\* force_today] and the environment it reads, env = [listing, listFails,
\* getFails, csv, today]: the Drive listing, whether the list and get_media
\* calls fail, the CSV held by the file downloaded, and the date the clock
\* shows in the requested zone.  It returns [resp, obs].

\* the try block of latest_health
LatestHealthTry(env, dl, nz) ==
    IF dl.exc # ""
    THEN [resp |-> Except(dl.exc, "CSV fetch/read failed: "),
          obs |-> [NoObs EXCEPT !.stage = "download", !.exc = dl.exc, !.calls = dl.calls]]
    ELSE IF nz.exc # ""
    THEN [resp |-> Except(nz.exc, "CSV fetch/read failed: "),
          obs |-> [NoObs EXCEPT !.stage = "normalize", !.exc = nz.exc, !.calls = dl.calls]]
    ELSE [resp |-> [status |-> 200, kind |-> "json_rows", body |-> ""],
          obs |-> [NoObs EXCEPT !.stage = "done", !.calls = dl.calls, !.rows = nz.rows]]

latest_health(config, r, env) ==
    IF ~_auth_ok(config.API_KEY, r.key) THEN [resp |-> Unauthorized, obs |-> NoObs]
    ELSE LatestHealthTry(env,
             download_latest_csv_from_drive_with_meta(config.FOLDER_ID, env.listing,
                                                      env.listFails, env.getFails),
             normalize_and_last_7(env.csv))

\* the decoration of the rendered text: the header line and, with force_today,
\* the replacement of the header date
Decorate(r, env, dl, nz, text, local, kind) ==
    LET header_line == "last_modified: " \o local \o " [" \o dl.latest.name \o "]"
        old == DateLabel \o nz.rows[Len(nz.rows)].date
        new == DateLabel \o env.today \o " (in progress)"
        replaced == IF ForceToday(r.force_today) THEN StrReplace(text, old, new) ELSE text
    IN  [resp |-> [status |-> 200, kind |-> kind, body |-> header_line \o "\n" \o replaced],
         obs |-> [stage |-> "done", exc |-> "", calls |-> dl.calls, rows |-> nz.rows,
                  text |-> text, header_line |-> header_line, old |-> old, new |-> new]]

\* The try block shared, line for line, by daily_dashboard and
\* daily_dashboard_json; kind is what the handler wraps the text in.
DashboardTry(r, env, dl, nz, rd, lc, kind) ==
    LET fail(stage, exc) ==
            [resp |-> Except(exc, "render failed: "),
             obs |-> [NoObs EXCEPT !.stage = stage, !.exc = exc, !.calls = dl.calls]]
    IN  IF dl.exc # "" THEN fail("download", dl.exc)
        ELSE IF nz.exc # "" THEN fail("normalize", nz.exc)
        ELSE IF rd.exc # "" THEN [fail("render", rd.exc) EXCEPT !.obs.rows = nz.rows]
        ELSE IF lc.exc # "" THEN [fail("decorate", lc.exc) EXCEPT !.obs.rows = nz.rows]
        ELSE Decorate(r, env, dl, nz, rd.text, lc.text, kind)

Dashboard(config, r, env, dl, nz, kind) ==
    DashboardTry(r, env, dl, nz, build_yaml_dashboard(nz.rows),
                 to_local_from_iso_utc(dl.latest.modifiedTime, ArgOr(r.tz, "Asia/Tokyo")), kind)

daily_dashboard(config, r, env) ==
    IF ~_auth_ok(config.API_KEY, r.key) THEN [resp |-> Unauthorized, obs |-> NoObs]
    ELSE Dashboard(config, r, env,
             download_latest_csv_from_drive_with_meta(config.FOLDER_ID, env.listing,
                                                      env.listFails, env.getFails),
             normalize_and_last_7(env.csv), "text")

daily_dashboard_json(config, r, env) ==
    IF ~_auth_ok(config.API_KEY, r.key) THEN [resp |-> Unauthorized, obs |-> NoObs]
    ELSE Dashboard(config, r, env,
             download_latest_csv_from_drive_with_meta(config.FOLDER_ID, env.listing,
                                                      env.listFails, env.getFails),
             normalize_and_last_7(env.csv), "json_content")

NoReq == [route |-> "", key |-> None, tz |-> None, force_today |-> None]
NoResp == [status |-> 0, kind |-> "", body |-> ""]
NoCfg == [API_KEY |-> None, FOLDER_ID |-> ""]

HttpOff == cfg = NoCfg /\ phase = "off" /\ req = NoReq /\ resp = NoResp /\ obs = NoObs


(***************************************************************************)
(* The selector on its own: every listing of at most MaxFiles files drawn  *)
(* from FileNames x ModifiedTimes.                                          *)
(***************************************************************************)
MaxFiles == 3

\* dated, dated (earlier), undated, and a match that is no calendar date
FileNames == {"h_2025-08-25.csv", "20250824.csv", "export.csv", "2025_02_30.csv"}

\* Drive sends modifiedTime as RFC 3339 UTC ("...Z"); "" is f.get's default
\* for an entry without the field
ModifiedTimes == {"", "2025-08-25T00:42:10.123Z", "2025-08-26T09:00:00.000Z"}

\* the listing of n files with the names nm[1..n] and modifiedTimes mt[1..n]
Listing(n, nm, mt) == [i \in 1..n |-> [id |-> i, name |-> nm[i], modifiedTime |-> mt[i]]]

SelOff == files = <<>> /\ selPc = "off" /\ selOut = NoSel

SelInit ==
    /\ \E n \in 0..MaxFiles : \E nm \in [1..n -> FileNames], mt \in [1..n -> ModifiedTimes] :
           files = Listing(n, nm, mt)
    /\ selPc = "call"
    /\ selOut = NoSel
    /\ ColOff /\ NormOff /\ HttpOff

\* one call of download_latest_csv_from_drive_with_meta(FOLDER_ID)
Select ==
    /\ selPc = "call"
    /\ \E listFails \in BOOLEAN, getFails \in BOOLEAN :
           selOut' = download_latest_csv_from_drive_with_meta("folder", files, listFails, getFails)
    /\ selPc' = "done"
    /\ UNCHANGED <<files, colVars, normVars, httpVars>>

SelNext == Select

SpecSelect == SelInit /\ [][SelNext]_vars

(***************************************************************************)
(* Claims about the selector (checked under SpecSelect)                    *)
(***************************************************************************)
Dated(f) == _parse_date_from_name(f.name) # DateMin

MtimeParses(f) == IsoOk(StrReplace(f.modifiedTime, "Z", "+00:00"))

FileSet == {files[i] : i \in 1..Len(files)}

\* the sort key of every listed file
Keys == [f \in FileSet |-> sort_key(f)]

\* the listed files whose modifiedTime parses
Parsing == {f \in FileSet : MtimeParses(f)}

\* the listing call itself failed (network), so nothing was sorted
ListFailed == selOut.exc = "HttpError" /\ Len(selOut.calls) = 1

\* the sort was run: the folder id is set, the listing arrived and is not empty
SortRan == selPc = "done" /\ ~ListFailed /\ files # <<>>

\* position of file f in the listing after the sort (0 when there is none)
Rank(f) == IF \E i \in 1..Len(selOut.ranked) : selOut.ranked[i] = f
           THEN CHOOSE i \in 1..Len(selOut.ranked) : selOut.ranked[i] = f
           ELSE 0

\* C1 (as claimed): whenever the listing holds a dated and an undated file,
\* the sort yields a first element and it is one of the dated files, whatever
\* the modifiedTime values are.
C1_DatedFileSelected ==
    SortRan =>
        \A key \in {Keys} :
            ((\E f \in FileSet : key[f].dname # DateMin) /\ (\E f \in FileSet : key[f].dname = DateMin))
                => (selOut.latest \in FileSet /\ key[selOut.latest].dname # DateMin)

\* C7: when every modifiedTime parses, the sort completes and the selected
\* file has the greatest modifiedTime among the files with its name-date (so
\* of two undated files the later modified one is selected); and whenever a
\* file is selected, no file with its name-date has a greater modifiedTime.
C7_LatestModifiedWins ==
    SortRan =>
        \A key \in {Keys} :
            /\ (\A f \in FileSet : MtimeParses(f))
                   => (selOut.latest \in FileSet /\ selOut.exc \in {"", "HttpError"})
            /\ selOut.latest # NoFile
                   => \A f \in FileSet :
                          key[f].dname = key[selOut.latest].dname
                              => ~DatetimeLt(key[selOut.latest].mtime, key[f].mtime)

\* C7 witness: two undated files, the later modified one listed second, selected.
C7_Witness ==
    /\ selPc = "done" /\ selOut.exc = "" /\ Len(files) = 2
    /\ ~Dated(files[1]) /\ ~Dated(files[2])
    /\ MtimeParses(files[1]) /\ MtimeParses(files[2])
    /\ DatetimeLt(sort_key(files[1]).mtime, sort_key(files[2]).mtime)
    /\ selOut.latest = files[2]

\* C9 (as claimed): for two files with equal name-dates of which exactly one
\* has an unparseable modifiedTime, the sort completes without error and ranks
\* the file with the parseable modifiedTime ahead of the other.
C9_UnparseableRankedLast ==
    SortRan =>
        \A key \in {Keys} : \A ok \in {Parsing} :
            \A f \in ok, g \in FileSet \ ok :
                key[f].dname = key[g].dname
                    => (selOut.exc # "TypeError" /\ Rank(f) >= 1 /\ Rank(f) < Rank(g))

(***************************************************************************)
(* _colmap on its own: every header row of at most MaxCols distinct names  *)
(* from ColumnNames (pandas renames repeated names, so the names of a      *)
(* DataFrame are distinct), and the header row of the bilingual scenario.  *)
(***************************************************************************)
MaxCols == 3

\* The Japanese label for body weight ("taiju"), romanised: the module is kept
\* in ASCII.  Like the original it has no upper case and holds no alias.
JaWeight == "taiju"

ColumnNames ==
    {"Date", "DATE", "Update", "Step", "Footsteps", "Step Count",
     "Sleep Duration (hr)", JaWeight}

ScenarioColumns == <<"Date", "Step Count", "Sleep Duration (hr)", JaWeight>>

\* a header row of distinct names
Distinct(h) == \A i, j \in 1..Len(h) : i # j => h[i] # h[j]

ColInit ==
    /\ \/ columns = ScenarioColumns
       \/ \E n \in 0..MaxCols : \E h \in [1..n -> ColumnNames] : Distinct(h) /\ columns = h
    /\ colPc = "call"
    /\ cmap = NoMap
    /\ SelOff /\ NormOff /\ HttpOff

\* one call of _colmap(list(df.columns))
Colmap ==
    /\ colPc = "call"
    /\ cmap' = _colmap(columns)
    /\ colPc' = "done"
    /\ UNCHANGED <<columns, selVars, normVars, httpVars>>

ColNext == Colmap

SpecCol == ColInit /\ [][ColNext]_vars

ColumnSet == {columns[i] : i \in 1..Len(columns)}

Min(S) == CHOOSE x \in S : \A y \in S : x <= y

\* C5 (as claimed): for the header row Date, Step Count, Sleep Duration (hr)
\* and the Japanese weight label, the keys date, steps, sleep_hours and weight_kg resolve to those four
\* columns.
C5_ScenarioResolved ==
    (colPc = "done" /\ columns = ScenarioColumns)
        => /\ cmap.date = "Date"
           /\ cmap.steps = "Step Count"
           /\ cmap.sleep_hours = "Sleep Duration (hr)"
           /\ cmap.weight_kg = JaWeight

\* C6: for every metric, if some alias equals a column name ignoring case the
\* result is a column equal, ignoring case, to the first such alias; otherwise
\* if some alias occurs inside a column name the result is such a column;
\* otherwise the result is empty.
C6_ExactAliasWins ==
    colPc = "done" =>
        \A low \in {[c \in ColumnSet |-> StrLower(c)]} :
            \A m \in Metrics :
                LET al == Aliases[m]
                    exact == {a \in 1..Len(al) : \E c \in ColumnSet : low[c] = al[a]}
                    inside == {c \in ColumnSet : \E a \in 1..Len(al) : Contains(low[c], al[a])}
                IN  IF exact # {}
                    THEN cmap[m] \in ColumnSet /\ low[cmap[m]] = al[Min(exact)]
                    ELSE IF inside # {}
                    THEN cmap[m] \in inside
                    ELSE cmap[m] = ""

\* C6 witness: "steps" occurs inside Footsteps, listed first, and the later
\* alias "step" equals the column Step ignoring case: Step is returned.
C6_Witness ==
    /\ colPc = "done"
    /\ columns = <<"Footsteps", "Step">>
    /\ cmap.steps = "Step"

(***************************************************************************)
(* normalize_and_last_7 on its own: every table of at most MaxRows rows    *)
(* with a Date and a Steps column.  The steps cell of row i holds i, so    *)
(* that the rows, equal dates included, can be told apart in the result.   *)
(***************************************************************************)
MaxRows == 8

DateCells == {"2025-08-24", "2025-08-25", "n/a"}

\* the table with the date cells dc[1..n]
NormTable(n, dc) == [columns |-> <<"Date", "Steps">>, rows |-> [i \in 1..n |-> <<dc[i], ToString(i)>>]]

NormInit ==
    /\ \E n \in 0..MaxRows : \E dc \in [1..n -> DateCells] : table = NormTable(n, dc)
    /\ normPc = "call"
    /\ normOut = NoRows
    /\ SelOff /\ ColOff /\ HttpOff

\* one call of normalize_and_last_7(csv_bytes)
Normalize ==
    /\ normPc = "call"
    /\ normOut' = normalize_and_last_7(table)
    /\ normPc' = "done"
    /\ UNCHANGED <<table, selVars, colVars, httpVars>>

NormNext == Normalize

SpecNorm == NormInit /\ [][NormNext]_vars

\* the rows of the table whose date cell parses
ValidRows == {i \in 1..Len(table.rows) : DateCell(table.rows[i][1]) # None}

\* the rows of the table that appear in the result
KeptRows == {normOut.rows[k].steps[1] : k \in 1..Len(normOut.rows)}

\* C4: the result holds min(7, valid rows) records, each the record of a row
\* whose date parses and no row twice, in non-decreasing date order, and no
\* dropped valid row has a later date than a returned one.
C4_LastSevenValidRows ==
    normPc = "done" =>
        \A out \in {normOut.rows} : \A valid \in {ValidRows} :
            /\ normOut.exc = ""
            /\ Len(out) = (IF Cardinality(valid) < 7 THEN Cardinality(valid) ELSE 7)
            /\ \A k \in 1..Len(out) :
                   /\ out[k].steps # None
                   /\ out[k].steps[1] \in valid
                   /\ out[k].date = table.rows[out[k].steps[1]][1]
            /\ \A k, l \in 1..Len(out) : k # l => out[k].steps # out[l].steps
            /\ \A k \in 1..(Len(out) - 1) : ~StrLt(out[k + 1].date, out[k].date)
            /\ \A i \in valid \ KeptRows :
                   \A k \in 1..Len(out) : ~StrLt(out[k].date, table.rows[i][1])

\* C4 witness: eight rows, all dated, the later date first: seven are returned,
\* among them rows with equal dates.
C4_Witness ==
    /\ normPc = "done"
    /\ Len(table.rows) = 8 /\ Cardinality(ValidRows) = 8
    /\ table.rows[1][1] = "2025-08-25" /\ table.rows[2][1] = "2025-08-24"
    /\ Len(normOut.rows) = 7
    /\ normOut.rows[1].date = "2025-08-24"
    /\ normOut.rows[6].date = normOut.rows[7].date

(***************************************************************************)
(* The service: one request at a time, each served by its handler from     *)
(* start to response.  Nothing is kept between requests.                   *)
(***************************************************************************)
MaxHttpRows == 2

ApiKeyHeaders == {None, Some("secret"), Some("wrong")}
TzArgs == {None, Some("UTC"), Some("Mars/Base")}
ForceArgs == {None, Some("True")}
Todays == {"2025-08-25", "2025-08-26"}

T1 == "2025-08-25T20:42:10.123Z"

\* an empty folder; one dated file; a dated file without modifiedTime beside an
\* undated one; two undated files of which one has no modifiedTime
HttpListings ==
    { <<>>,
      <<[id |-> 1, name |-> "h_2025-08-25.csv", modifiedTime |-> T1]>>,
      <<[id |-> 1, name |-> "export.csv", modifiedTime |-> T1],
        [id |-> 2, name |-> "h_2025-08-25.csv", modifiedTime |-> ""]>>,
      <<[id |-> 1, name |-> "export.csv", modifiedTime |-> T1],
        [id |-> 2, name |-> "export.csv", modifiedTime |-> ""]>> }

\* header rows: both columns, no steps column, no date column, an empty file
HttpHeaders == {<<"Date", "Steps">>, <<"Date">>, <<"Steps">>, <<>>}

StepsCells == {"", "3000", "8000"}

CellsOf(col) == IF col = "Date" THEN DateCells ELSE StepsCells

RowsOf(cols) == {r \in [1..Len(cols) -> DateCells \cup StepsCells] :
                     \A j \in 1..Len(cols) : r[j] \in CellsOf(cols[j])}

Init ==
    /\ cfg \in [API_KEY : {None, Some("secret")}, FOLDER_ID : {"", "folder"}]
    /\ phase = "idle"
    /\ req = NoReq
    /\ resp = NoResp
    /\ obs = NoObs
    /\ SelOff /\ ColOff /\ NormOff

\* GET /healthz
healthz ==
    /\ phase = "idle"
    /\ req' = [NoReq EXCEPT !.route = "/healthz"]
    /\ resp' = [status |-> 200, kind |-> "text", body |-> "ok"]
    /\ obs' = NoObs
    /\ phase' = "responded"
    /\ UNCHANGED <<cfg, selVars, colVars, normVars>>

\* the view function the @app.get decorators register for a path
Dispatch(route, config, r, env) ==
    CASE route = "/latest-health" -> latest_health(config, r, env)
      [] route = "/daily-dashboard" -> daily_dashboard(config, r, env)
      [] route = "/daily-dashboard.json" -> daily_dashboard_json(config, r, env)

\* One request to a protected route and the handler's answer to it.  Every
\* input is drawn where the handler reads it: the query arguments and Drive
\* only after the key check, the CSV only after a download, the clock only
\* with force_today.
Serve(route, readsArgs) ==
    \E key \in ApiKeyHeaders :
    \E passes \in {_auth_ok(cfg.API_KEY, key)} :
    \E tz \in (IF passes /\ readsArgs THEN TzArgs ELSE {None}),
       force \in (IF passes /\ readsArgs THEN ForceArgs ELSE {None}),
       listing \in (IF passes /\ cfg.FOLDER_ID # "" THEN HttpListings ELSE {<<>>}),
       listFails \in (IF passes /\ cfg.FOLDER_ID # "" THEN BOOLEAN ELSE {FALSE}) :
    \E getFails \in (IF passes /\ cfg.FOLDER_ID # "" /\ ~listFails /\ listing # <<>>
                     THEN BOOLEAN ELSE {FALSE}) :
    \E dl \in {download_latest_csv_from_drive_with_meta(cfg.FOLDER_ID, listing, listFails, getFails)} :
    \E cols \in (IF passes /\ dl.exc = "" THEN HttpHeaders ELSE {<<>>}) :
    \E n \in 0..(IF cols = <<>> THEN 0 ELSE MaxHttpRows) :
    \E rows \in [1..n -> RowsOf(cols)],
       today \in (IF ForceToday(force) THEN Todays ELSE {""}) :
    \E r \in {[route |-> route, key |-> key, tz |-> tz, force_today |-> force]} :
    \E out \in {Dispatch(route, cfg, r,
                         [listing |-> listing, listFails |-> listFails, getFails |-> getFails,
                          csv |-> [columns |-> cols, rows |-> rows], today |-> today])} :
        /\ req' = r
        /\ resp' = out.resp
        /\ obs' = out.obs

\* GET /latest-health
LatestHealth ==
    /\ phase = "idle"
    /\ Serve("/latest-health", FALSE)
    /\ phase' = "responded"
    /\ UNCHANGED <<cfg, selVars, colVars, normVars>>

\* GET /daily-dashboard
DailyDashboard ==
    /\ phase = "idle"
    /\ Serve("/daily-dashboard", TRUE)
    /\ phase' = "responded"
    /\ UNCHANGED <<cfg, selVars, colVars, normVars>>

\* GET /daily-dashboard.json
DailyDashboardJson ==
    /\ phase = "idle"
    /\ Serve("/daily-dashboard.json", TRUE)
    /\ phase' = "responded"
    /\ UNCHANGED <<cfg, selVars, colVars, normVars>>

\* the response is sent and the request's objects are dropped
Finish ==
    /\ phase = "responded"
    /\ phase' = "idle"
    /\ req' = NoReq
    /\ resp' = NoResp
    /\ obs' = NoObs
    /\ UNCHANGED <<cfg, selVars, colVars, normVars>>

Next == healthz \/ LatestHealth \/ DailyDashboard \/ DailyDashboardJson \/ Finish

Spec == Init /\ [][Next]_vars

(***************************************************************************)
(* Claims about the handlers (checked under Spec)                          *)
(***************************************************************************)
ProtectedRoutes == {"/latest-health", "/daily-dashboard", "/daily-dashboard.json"}

DashboardRoutes == {"/daily-dashboard", "/daily-dashboard.json"}

\* the request carries the configured key
KeyMatches == cfg.API_KEY # None /\ req.key # None /\ req.key = cfg.API_KEY

\* s with its first occurrence of old replaced by new
ReplaceFirst(s, old, new) ==
    LET k == FindFrom(s, old, 1)
    IN  IF k = 0 THEN s ELSE SubSeq(s, 1, k - 1) \o new \o SubSeq(s, k + Len(old), Len(s))

\* C2 (as claimed): when the dashboard is rendered and the latest record has
\* no steps, rendering completes and the report holds the low-activity flag;
\* when it has steps, the flag is there exactly when steps < 5000.
C2_MissingStepsCountAsZero ==
    (/\ phase = "responded" /\ req.route \in DashboardRoutes /\ KeyMatches
     /\ obs.stage \in {"render", "decorate", "done"} /\ obs.rows # <<>>)
        => \A latest \in {obs.rows[Len(obs.rows)]} :
               /\ resp.status = 200
               /\ Contains(resp.body, LowStepsFlag)
                      <=> (latest.steps = None \/ latest.steps[1] < 5000)

\* C3 (as claimed): with force_today the response is the header line followed
\* by the report in which only the first occurrence of the header date string
\* is replaced; the per-day lines keep the original date.
C3_OnlyHeaderDateReplaced ==
    (/\ phase = "responded" /\ req.route \in DashboardRoutes
     /\ resp.status = 200 /\ ForceToday(req.force_today))
        => resp.body = obs.header_line \o "\n" \o ReplaceFirst(obs.text, obs.old, obs.new)

\* C8: an authorized request to a protected route ends in 200, or in 500 with
\* a JSON error body; whatever a pipeline step raises is caught by the handler.
C8_FailuresReportedAsJson ==
    (phase = "responded" /\ req.route \in ProtectedRoutes /\ KeyMatches)
        => /\ resp.kind # "escaped"
           /\ resp.status \in {200, 500}
           /\ obs.exc # "" => (resp.status = 500 /\ resp.kind = "json_error")
           /\ obs.exc = "" => (resp.status = 200 /\ resp.kind # "json_error")

\* C8 witness: the CSV has no parseable date, rendering the empty record
\* sequence raises IndexError, and the handler answers 500 with a JSON error.
C8_Witness ==
    /\ phase = "responded" /\ req.route \in DashboardRoutes /\ KeyMatches
    /\ obs.stage = "render" /\ obs.exc = "IndexError" /\ obs.rows = <<>>
    /\ resp.status = 500 /\ resp.kind = "json_error"

\* C10: on a protected route a request without the key, with another key, or
\* any request when no key is configured gets 401 and makes no Drive call;
\* Drive is called only in requests that carry the configured key.
C10_AuthBeforeStorage ==
    (phase = "responded" /\ req.route \in ProtectedRoutes)
        => /\ (cfg.API_KEY = None \/ req.key = None \/ req.key # cfg.API_KEY)
                  => (resp.status = 401 /\ obs.calls = <<>>)
           /\ obs.calls # <<>> => KeyMatches

\* C10 witness: no key configured, no header sent: 401 and no Drive call.
C10_Witness ==
    /\ phase = "responded" /\ req.route \in ProtectedRoutes
    /\ cfg.API_KEY = None /\ req.key = None /\ cfg.FOLDER_ID # ""
    /\ resp.status = 401 /\ obs.calls = <<>>

====
